---------------------------- MODULE Spec2Model ----------------------------
(***************************************************************************)
(* A model of the RAG source-data preparation scripts:                     *)
(*   src/chunk_script.py            the single-process pipeline            *)
(*   src/rag_distributed_etl_job.py the distributed (Glue/Spark) variant   *)
(*                                                                         *)
(* Python strings are modelled at two levels.  File names, dictionary keys *)
(* and other short strings are TLA+ strings, handled character by          *)
(* character.  Record values and narratives may be tens of megabytes long, *)
(* so they are "texts": sequences of pieces [s |-> literal, n |-> k], each *)
(* standing for the literal s followed by k filler characters "x".  All    *)
(* characters are ASCII, so the UTF-8 byte length of a string is its       *)
(* number of characters.                                                   *)
(***************************************************************************)
EXTENDS Integers, Sequences, FiniteSets, TLC

(***************************************************************************)
(* Bounds of the model.                                                    *)
(***************************************************************************)
\* the longest input file, in lines
MaxLines == 4
\* the most files in the raw tree
MaxFiles == 3
\* the most rows the distributed job loads
MaxRows == 3

(***************************************************************************)
(* Characters and short strings.                                           *)
(***************************************************************************)
\* the printable ASCII characters in code order: 32 (space) to 95, and 97 to 126
AsciiLow == " !\"#$%&'()*+,-./0123456789:;<=>?@ABCDEFGHIJKLMNOPQRSTUVWXYZ[\\]^_"

AsciiHigh == "abcdefghijklmnopqrstuvwxyz{|}~"

CharAt(s, i) == SubSeq(s, i, i)

\* ord(c)
Ord(c) ==
    IF \E i \in 1..Len(AsciiLow) : CharAt(AsciiLow, i) = c
    THEN 31 + CHOOSE i \in 1..Len(AsciiLow) : CharAt(AsciiLow, i) = c
    ELSE 96 + CHOOSE i \in 1..Len(AsciiHigh) : CharAt(AsciiHigh, i) = c

\* chr(k)
Chr(k) == IF k <= 95 THEN CharAt(AsciiLow, k - 31) ELSE CharAt(AsciiHigh, k - 96)

IsUpper(c) == Ord(c) >= 65 /\ Ord(c) <= 90

IsLower(c) == Ord(c) >= 97 /\ Ord(c) <= 122

IsAlpha(c) == IsUpper(c) \/ IsLower(c)

LowerChar(c) == IF IsUpper(c) THEN Chr(Ord(c) + 32) ELSE c

UpperChar(c) == IF IsLower(c) THEN Chr(Ord(c) - 32) ELSE c

\* str.lower()
RECURSIVE str_lower(_)
str_lower(s) ==
    IF s = "" THEN ""
    ELSE LowerChar(CharAt(s, 1)) \o str_lower(SubSeq(s, 2, Len(s)))

\* str.startswith(prefix)
str_startswith(s, prefix) ==
    /\ Len(s) >= Len(prefix)
    /\ SubSeq(s, 1, Len(prefix)) = prefix

\* str.replace(old, new), for a non-empty old
RECURSIVE str_replace(_, _, _)
str_replace(s, old, new) ==
    IF s = "" THEN ""
    ELSE IF str_startswith(s, old)
         THEN new \o str_replace(SubSeq(s, Len(old) + 1, Len(s)), old, new)
         ELSE CharAt(s, 1) \o str_replace(SubSeq(s, 2, Len(s)), old, new)

\* str.title(): a letter that follows a letter is lower-cased, any other
\* letter is upper-cased
RECURSIVE TitleFrom(_, _)
TitleFrom(s, prevAlpha) ==
    IF s = "" THEN ""
    ELSE LET c == CharAt(s, 1)
         IN (IF prevAlpha THEN LowerChar(c) ELSE UpperChar(c))
            \o TitleFrom(SubSeq(s, 2, Len(s)), IsAlpha(c))

str_title(s) == TitleFrom(s, FALSE)

\* str.endswith(suffix)
str_endswith(s, suffix) ==
    /\ Len(s) >= Len(suffix)
    /\ SubSeq(s, Len(s) - Len(suffix) + 1, Len(s)) = suffix

\* str.endswith(tuple of suffixes)
str_endswith_any(s, suffixes) == \E suffix \in suffixes : str_endswith(s, suffix)

\* sub in s
str_contains(s, sub) ==
    \E i \in 1..(Len(s) - Len(sub) + 1) : SubSeq(s, i, i + Len(sub) - 1) = sub

\* s < t in Python's (code point) order of strings
RECURSIVE str_less(_, _)
str_less(s, t) ==
    IF t = "" THEN FALSE
    ELSE IF s = "" THEN TRUE
    ELSE IF CharAt(s, 1) = CharAt(t, 1)
         THEN str_less(SubSeq(s, 2, Len(s)), SubSeq(t, 2, Len(t)))
         ELSE Ord(CharAt(s, 1)) < Ord(CharAt(t, 1))

\* str(i) for an integer i >= 0
RECURSIVE int_str(_)
int_str(i) ==
    IF i < 10 THEN Chr(48 + i)
    ELSE int_str(i \div 10) \o Chr(48 + (i % 10))

\* the format specification 03d: decimal, zero-padded to at least 3 digits
RECURSIVE ZeroPad(_, _)
ZeroPad(s, width) == IF Len(s) >= width THEN s ELSE ZeroPad("0" \o s, width)

format_03d(i) == ZeroPad(int_str(i), 3)

(***************************************************************************)
(* Texts: strings that may hold long runs of filler.                       *)
(***************************************************************************)
Lit(s) == << [s |-> s, n |-> 0] >>

Fill(k) == << [s |-> "", n |-> k] >>

\* a + b, keeping literals that touch in one piece
Cat(a, b) ==
    IF a = << >> THEN b
    ELSE IF b = << >> THEN a
    ELSE IF a[Len(a)].n = 0
         THEN SubSeq(a, 1, Len(a) - 1)
              \o << [s |-> a[Len(a)].s \o b[1].s, n |-> b[1].n] >>
              \o SubSeq(b, 2, Len(b))
         ELSE a \o b

\* len(text.encode('utf-8'))
RECURSIVE ByteLen(_)
ByteLen(t) ==
    IF t = << >> THEN 0
    ELSE Len(t[1].s) + t[1].n + ByteLen(Tail(t))

\* sub in text.lower(), for a sub without the filler character
TextContainsLower(t, sub) ==
    \E i \in 1..Len(t) : str_contains(str_lower(t[i].s), sub)

\* text.startswith(prefix)
TextStartsWith(t, prefix) ==
    /\ t # << >>
    /\ Len(t[1].s) >= Len(prefix)
    /\ SubSeq(t[1].s, 1, Len(prefix)) = prefix

\* text[:k]
RECURSIVE TextTake(_, _)
TextTake(t, k) ==
    IF k <= 0 \/ t = << >> THEN << >>
    ELSE IF Len(t[1].s) >= k THEN Lit(SubSeq(t[1].s, 1, k))
    ELSE IF Len(t[1].s) + t[1].n >= k
         THEN << [s |-> t[1].s, n |-> k - Len(t[1].s)] >>
    ELSE << t[1] >> \o TextTake(Tail(t), k - Len(t[1].s) - t[1].n)

\* text.replace(old, new), for an old without the filler character
TextReplace(t, old, new) ==
    [i \in 1..Len(t) |-> [s |-> str_replace(t[i].s, old, new), n |-> t[i].n]]

\* sep.join(list)
RECURSIVE Join(_, _)
Join(sep, list) ==
    IF list = << >> THEN << >>
    ELSE IF Len(list) = 1 THEN list[1]
    ELSE Cat(Cat(list[1], sep), Join(sep, Tail(list)))

(***************************************************************************)
(* Paths (os.path on a POSIX system).                                      *)
(***************************************************************************)
\* os.path.join(a, b)
path_join(a, b) ==
    IF str_startswith(b, "/") THEN b
    ELSE IF a = "" \/ str_endswith(a, "/") THEN a \o b
    ELSE a \o "/" \o b

\* os.path.basename(p): what follows the last "/"
RECURSIVE path_basename(_)
path_basename(p) ==
    IF str_contains(p, "/") THEN path_basename(SubSeq(p, 2, Len(p))) ELSE p

(***************************************************************************)
(* Configuration.                                                          *)
(***************************************************************************)
RAW_ROOT == "remap-my-rag-source-data/raw/"

PROCESSED_ROOT == "remap-my-rag-source-data/processed/"

MAX_JSON_CHUNK_SIZE_BYTES == 40 * 1024 * 1024

\* the path the main program hands to split_and_process_jsonl
jsonl_path == path_join(path_join(RAW_ROOT, "json"), "large_raw_data.jsonl")

(***************************************************************************)
(* Python values, as json.loads returns them.                              *)
(***************************************************************************)
PyInt(i) == [t |-> "int", i |-> i]

PyStr(text) == [t |-> "str", s |-> text]

PyFloat(repr) == [t |-> "float", r |-> repr]

PyNone == [t |-> "NoneType"]

PyList == [t |-> "list"]

\* a dict keeps its items in insertion order; keys are unique
PyDict(items) == [t |-> "dict", items |-> items]

Item(k, v) == [k |-> k, v |-> v]

\* str(value) for the scalar types
py_str(value) ==
    CASE value.t = "int" -> Lit(int_str(value.i))
      [] value.t = "float" -> Lit(value.r)
      [] value.t = "str" -> value.s
      [] value.t = "NoneType" -> Lit("None")

\* dict.get(key, default)
dict_get(d, key, default) ==
    IF \E i \in 1..Len(d.items) : d.items[i].k = key
    THEN d.items[CHOOSE i \in 1..Len(d.items) : d.items[i].k = key].v
    ELSE default

\* what json.loads raises on a line that is not JSON
JSONDecodeError == [t |-> "JSONDecodeError"]

\* record.items() exists for a dict; on any other value the call raises
\* an AttributeError
has_items(record) == record.t = "dict"

(***************************************************************************)
(* process_json_record                                                     *)
(***************************************************************************)
ReservedKeys == {"id", "timestamp", "internal_hash"}

\* the sentence one item contributes to narrative_parts, << >> if none
RECURSIVE narrative_parts(_)
narrative_parts(items) ==
    IF items = << >> THEN << >>
    ELSE LET key == items[1].k
             value == items[1].v
             rest == narrative_parts(Tail(items))
         IN IF key \in ReservedKeys THEN rest
            ELSE IF key = "patient_details" /\ value.t = "dict"
            THEN << Cat(Cat(Cat(Cat(Lit("Patient ID: "),
                        py_str(dict_get(value, "patient_id", PyStr(Lit("Unknown"))))),
                        Lit(". Diagnosis: ")),
                        py_str(dict_get(value, "diagnosis", PyStr(Lit("N/A"))))),
                        Lit(".")) >> \o rest
            ELSE IF value.t \in {"int", "float", "str"}
            THEN << Cat(Cat(Cat(Cat(Lit("The "),
                        Lit(str_title(str_replace(key, "_", " ")))),
                        Lit(" is: ")),
                        py_str(value)),
                        Lit(".")) >> \o rest
            ELSE rest

\* the narrative of a dict
process_json_record(record, original_filename) ==
    Cat(Lit("SOURCE FILE: " \o original_filename \o ". "),
        Join(Lit(" "), narrative_parts(record.items)))

(***************************************************************************)
(* write_json_chunk                                                        *)
(***************************************************************************)
\* the paragraph break that joins the narratives of one file
ParagraphBreak == Lit("\n\n---\n\n")

output_filename(base_name, index) ==
    base_name \o "_part_" \o format_03d(index) \o ".txt"

output_filepath(base_name, index) ==
    path_join(path_join(PROCESSED_ROOT, "json_chunks"),
              output_filename(base_name, index))

\* Faulty variant: the narratives joined by a blank line only
write_json_chunk_blank_line(fs, base_name, index, data_list) ==
    (output_filepath(base_name, index) :> Join(Lit("\n\n"), data_list)) @@ fs

\* the file system after open(output_filepath, 'w') and write: the file is
\* created, or truncated and rewritten
write_json_chunk(fs, base_name, index, data_list) ==
    (output_filepath(base_name, index) :> Join(ParagraphBreak, data_list)) @@ fs

(***************************************************************************)
(* The input of split_and_process_jsonl: the lines of the file.  A line is *)
(* given by what json.loads makes of it, a Python value or                 *)
(* JSONDecodeError; the JSON grammar itself is the library's.              *)
(***************************************************************************)
json_loads(line) == line.parsed

BadLine == [text |-> "{bad", parsed |-> JSONDecodeError]

BlankLine == [text |-> "", parsed |-> JSONDecodeError]

NumberLine == [text |-> "5", parsed |-> PyInt(5)]

ArrayLine == [text |-> "[1, 2]", parsed |-> PyList]

NoteLine ==
    [text |-> "{\"id\": 7, \"note\": \"ok\"}",
     parsed |-> PyDict(<< Item("id", PyInt(7)), Item("note", PyStr(Lit("ok"))) >>)]

PatientLine ==
    [text |-> "{\"patient_details\": {\"patient_id\": \"P1\"}, \"visit_count\": 3}",
     parsed |-> PyDict(<< Item("patient_details",
                               PyDict(<< Item("patient_id", PyStr(Lit("P1"))) >>)),
                          Item("visit_count", PyInt(3)) >>)]

\* a record {"blob": "xx...x"}
BlobRecord(fill) == PyDict(<< Item("blob", PyStr(Fill(fill))) >>)

\* the line whose narrative is exactly `bytes` bytes long
BlobLine(bytes) ==
    LET overhead == ByteLen(process_json_record(BlobRecord(0),
                                                path_basename(jsonl_path)))
    IN [text |-> "{\"blob\": ...}", parsed |-> BlobRecord(bytes - overhead)]

MB == 1024 * 1024

InputLines ==
    { BadLine, BlankLine, NumberLine, ArrayLine, NoteLine, PatientLine,
      BlobLine(5 * MB), BlobLine(20 * MB), BlobLine(45 * MB) }

(***************************************************************************)
(* State.                                                                  *)
(***************************************************************************)
VARIABLES
    \* split_and_process_jsonl
    pc,                  \* "loop", "done", or "raised" (an uncaught exception)
    lines,               \* the lines of infile read so far
    output_data_list,
    current_chunk_size,
    chunk_file_index,
    fs,                  \* the files under PROCESSED_ROOT: path -> content
    written,             \* the calls of write_json_chunk so far, in order
    skipped,             \* the line numbers of the "Skipped malformed" messages
    reported,            \* the count of the final message, -1 before it
    \* process_unstructured_files
    pending,             \* the entries of the raw tree os.walk has yet to yield
    visited,             \* the entries yielded so far, with the branch each took
    \* the naming of the chunk files, as a function of the index
    index_pair,          \* two chunk indices
    names,               \* the file names write_json_chunk gives them
    \* running the pipeline a second time on the same input
    run,                 \* 1 in the first run of the pipeline, 2 in the second
    first_run,           \* the input, the files and the outcome of the first run
    \* the distributed job
    frame,               \* data_frame: the rows loaded, with their columns
    partitions           \* after repartition: partition number -> its rows

chunk_vars == << lines, output_data_list, current_chunk_size, chunk_file_index,
                 written, skipped, reported >>

walk_vars == << pending, visited >>

name_vars == << index_pair, names >>

rerun_vars == << run, first_run >>

glue_vars == << frame, partitions >>

vars == << pc, fs, chunk_vars, walk_vars, name_vars, rerun_vars, glue_vars >>

(***************************************************************************)
(* split_and_process_jsonl                                                 *)
(***************************************************************************)
input_file_path == jsonl_path

output_filename_base == str_replace(path_basename(input_file_path), ".jsonl", "")

\* rag_text for each line that holds a record (computed once per line)
rag_text_of ==
    [line \in {l \in InputLines : json_loads(l).t # "JSONDecodeError"
                                   /\ has_items(json_loads(l))} |->
        process_json_record(json_loads(line), path_basename(input_file_path))]

\* enumerate(infile): the number of the line being read
line_number == Len(lines)

\* the locals of split_and_process_jsonl as it enters its loop
ChunkInit ==
    /\ lines = << >>
    /\ output_data_list = << >>
    /\ current_chunk_size = 0
    /\ chunk_file_index = 0
    /\ written = << >>
    /\ skipped = << >>
    /\ reported = -1

WalkIdle == pending = {} /\ visited = << >>

NamesIdle == index_pair = << 0, 0 >> /\ names = << >>

GlueIdle == frame = << >> /\ partitions = << >>

\* the first run of the pipeline, with nothing recorded of an earlier one
FirstRun == run = 1 /\ first_run = [lines |-> << >>, fs |-> << >>, pc |-> "none"]

\* split_and_process_jsonl starts on an empty output directory
Init ==
    /\ pc = "loop"
    /\ fs = << >>
    /\ ChunkInit
    /\ WalkIdle
    /\ NamesIdle
    /\ FirstRun
    /\ GlueIdle

\* Faulty variant: the rollover test without the length of the new narrative
exceeds_chunk_before_add(size, length) ==
    size > MAX_JSON_CHUNK_SIZE_BYTES /\ size > 0

\* Faulty variant: the rollover test with >= in place of >
exceeds_chunk_at_ceiling(size, length) ==
    size + length >= MAX_JSON_CHUNK_SIZE_BYTES /\ size > 0

\* Faulty variant: every record after the first starts a new chunk
exceeds_chunk_nonempty(size, length) ==
    size > 0

\* the rollover test
exceeds_chunk(size, length) ==
    size + length > MAX_JSON_CHUNK_SIZE_BYTES /\ size > 0

\* one call of write_json_chunk, and its entry in the log
WriteChunk(index, data_list) ==
    /\ fs' = write_json_chunk(fs, output_filename_base, index, data_list)
    /\ written' = Append(written, [index |-> index,
                                   path |-> output_filepath(output_filename_base, index),
                                   data_list |-> data_list])

\* Faulty variant: a line json.loads rejects ends the run: no except clause
SkipMalformedLine_uncaught(line) ==
    /\ pc = "loop"
    /\ Len(lines) < MaxLines
    /\ json_loads(line).t = "JSONDecodeError"
    /\ lines' = Append(lines, line)
    /\ pc' = "raised"
    /\ UNCHANGED << skipped, output_data_list, current_chunk_size, chunk_file_index,
                    fs, written, reported, walk_vars, name_vars, rerun_vars, glue_vars >>

\* a line json.loads rejects: the except clause prints and continues
SkipMalformedLine(line) ==
    /\ pc = "loop"
    /\ Len(lines) < MaxLines
    /\ json_loads(line).t = "JSONDecodeError"
    /\ lines' = Append(lines, line)
    /\ skipped' = Append(skipped, line_number)
    /\ UNCHANGED << pc, output_data_list, current_chunk_size, chunk_file_index,
                    fs, written, reported, walk_vars, name_vars, rerun_vars, glue_vars >>

\* a line whose value is not a dict: process_json_record raises an
\* AttributeError, which no except clause catches
RaiseOnLine(line) ==
    /\ pc = "loop"
    /\ Len(lines) < MaxLines
    /\ json_loads(line).t # "JSONDecodeError"
    /\ ~has_items(json_loads(line))
    /\ lines' = Append(lines, line)
    /\ pc' = "raised"
    /\ UNCHANGED << output_data_list, current_chunk_size, chunk_file_index,
                    fs, written, skipped, reported, walk_vars, name_vars, rerun_vars, glue_vars >>

\* Faulty variant: the rollover leaves chunk_file_index as it is
AppendRecord_index_kept(line) ==
    /\ pc = "loop"
    /\ Len(lines) < MaxLines
    /\ json_loads(line).t # "JSONDecodeError"
    /\ has_items(json_loads(line))
    /\ LET rag_text == rag_text_of[line]
           length == ByteLen(rag_text)
       IN /\ lines' = Append(lines, line)
          /\ IF exceeds_chunk(current_chunk_size, length)
             THEN /\ WriteChunk(chunk_file_index, output_data_list)
                  /\ output_data_list' = << rag_text >>
                  /\ current_chunk_size' = length
                  /\ UNCHANGED chunk_file_index
             ELSE /\ output_data_list' = Append(output_data_list, rag_text)
                  /\ current_chunk_size' = current_chunk_size + length
                  /\ UNCHANGED << chunk_file_index, fs, written >>
    /\ UNCHANGED << pc, skipped, reported, walk_vars, name_vars, rerun_vars, glue_vars >>

\* a line that holds a record
AppendRecord(line) ==
    /\ pc = "loop"
    /\ Len(lines) < MaxLines
    /\ json_loads(line).t # "JSONDecodeError"
    /\ has_items(json_loads(line))
    /\ LET rag_text == rag_text_of[line]
           length == ByteLen(rag_text)
       IN /\ lines' = Append(lines, line)
          /\ IF exceeds_chunk(current_chunk_size, length)
             THEN /\ WriteChunk(chunk_file_index, output_data_list)
                  /\ output_data_list' = << rag_text >>
                  /\ current_chunk_size' = length
                  /\ chunk_file_index' = chunk_file_index + 1
             ELSE /\ output_data_list' = Append(output_data_list, rag_text)
                  /\ current_chunk_size' = current_chunk_size + length
                  /\ UNCHANGED << chunk_file_index, fs, written >>
    /\ UNCHANGED << pc, skipped, reported, walk_vars, name_vars, rerun_vars, glue_vars >>

\* Faulty variant: the end of infile without the final write
EndOfFile_no_final_write ==
    /\ pc = "loop"
    /\ reported' = chunk_file_index + 1
    /\ pc' = "done"
    /\ UNCHANGED << lines, output_data_list, current_chunk_size, chunk_file_index,
                    fs, written, skipped, walk_vars, name_vars, rerun_vars, glue_vars >>

\* Faulty variant: the final write without the test for remaining data
EndOfFile_unconditional_write ==
    /\ pc = "loop"
    /\ WriteChunk(chunk_file_index, output_data_list)
    /\ reported' = chunk_file_index + 1
    /\ pc' = "done"
    /\ UNCHANGED << lines, output_data_list, current_chunk_size, chunk_file_index,
                    skipped, walk_vars, name_vars, rerun_vars, glue_vars >>

\* the end of infile: the remaining data is written and the count printed
EndOfFile ==
    /\ pc = "loop"
    /\ IF output_data_list # << >>
       THEN WriteChunk(chunk_file_index, output_data_list)
       ELSE UNCHANGED << fs, written >>
    /\ reported' = chunk_file_index + 1
    /\ pc' = "done"
    /\ UNCHANGED << lines, output_data_list, current_chunk_size, chunk_file_index,
                    skipped, walk_vars, name_vars, rerun_vars, glue_vars >>

Next ==
    \/ \E line \in InputLines : SkipMalformedLine(line)
    \/ \E line \in InputLines : RaiseOnLine(line)
    \/ \E line \in InputLines : AppendRecord(line)
    \/ EndOfFile

Spec == Init /\ [][Next]_vars

(***************************************************************************)
(* The pipeline run twice: after the first call of split_and_process_jsonl *)
(* has ended (returned, or raised), the output directory is emptied and    *)
(* the function is called again on the same input file.                    *)
(***************************************************************************)
\* the first run, on any input
FirstRunStep == run = 1 /\ Next

\* Faulty variant: the chunk index lives on from the first run to the second
StartSecondRun_index_kept ==
    /\ run = 1
    /\ pc \in {"done", "raised"}
    /\ first_run' = [lines |-> lines, fs |-> fs, pc |-> pc]
    /\ run' = 2
    /\ pc' = "loop"
    /\ fs' = << >>
    /\ lines' = << >>
    /\ output_data_list' = << >>
    /\ current_chunk_size' = 0
    /\ written' = << >>
    /\ skipped' = << >>
    /\ reported' = -1
    /\ UNCHANGED << chunk_file_index, walk_vars, name_vars, glue_vars >>

\* the second call: the locals are initialised afresh (lines 44-51), the
\* output directory is empty again
StartSecondRun ==
    /\ run = 1
    /\ pc \in {"done", "raised"}
    /\ first_run' = [lines |-> lines, fs |-> fs, pc |-> pc]
    /\ run' = 2
    /\ pc' = "loop"
    /\ fs' = << >>
    /\ lines' = << >>
    /\ output_data_list' = << >>
    /\ current_chunk_size' = 0
    /\ chunk_file_index' = 0
    /\ written' = << >>
    /\ skipped' = << >>
    /\ reported' = -1
    /\ UNCHANGED << walk_vars, name_vars, glue_vars >>

\* the second run reads the line the first run read at the same place
SecondRunLine ==
    /\ run = 2
    /\ Len(lines) < Len(first_run.lines)
    /\ LET line == first_run.lines[Len(lines) + 1]
       IN \/ SkipMalformedLine(line)
          \/ RaiseOnLine(line)
          \/ AppendRecord(line)

\* the second run reaches the end of the same file
SecondRunEndOfFile ==
    /\ run = 2
    /\ Len(lines) = Len(first_run.lines)
    /\ first_run.pc = "done"
    /\ EndOfFile

NextTwice ==
    \/ FirstRunStep
    \/ StartSecondRun
    \/ SecondRunLine
    \/ SecondRunEndOfFile

SpecTwice == Init /\ [][NextTwice]_vars

(***************************************************************************)
(* process_unstructured_files                                              *)
(*                                                                         *)
(* The raw tree is a set of entries [subdir, filename], with subdir as     *)
(* os.walk(RAW_ROOT) yields it: RAW_ROOT itself for the top directory and  *)
(* os.path.join(parent, name), which ends without a slash, below it.  Each *)
(* raw file holds its own original path as content, which tells the files  *)
(* apart after they are moved.                                             *)
(***************************************************************************)
\* the directories of the raw tree, in the top-down order os.walk yields them
WalkDirs ==
    << RAW_ROOT,
       path_join(RAW_ROOT, "json"),
       path_join(path_join(RAW_ROOT, "json"), "archive") >>

Filenames == {"photo.JPG", "report.pdf", "notes.csv", "large_raw_data.jsonl"}

Entries ==
    {[subdir |-> WalkDirs[i], filename |-> f] : i \in 1..Len(WalkDirs), f \in Filenames}

source_path(e) == path_join(e.subdir, e.filename)

is_image(filename) ==
    str_endswith_any(str_lower(filename), {".png", ".jpg", ".jpeg", ".gif"})

is_document(filename) ==
    str_endswith_any(str_lower(filename), {".docx", ".pdf", ".xlsx", ".pptx", ".eml"})

is_raw_jsonl(subdir, filename) ==
    str_endswith(str_lower(filename), ".jsonl") /\ str_contains(subdir, "json/")

\* the branch of the if/elif chain an entry takes
branch_of(subdir, filename) ==
    IF is_image(filename) THEN "quarantine"
    ELSE IF is_document(filename) THEN "pass-through"
    ELSE IF is_raw_jsonl(subdir, filename) THEN "deferred"
    ELSE "unknown"

\* the branch of each entry (computed once per entry)
branch_table == [e \in Entries |-> branch_of(e.subdir, e.filename)]

quarantine_path(filename) ==
    path_join(path_join(PROCESSED_ROOT, "unsupported_files"), filename)

documents_path(filename) ==
    path_join(path_join(PROCESSED_ROOT, "documents"), filename)

\* os.rename(src, dst) on POSIX: dst is created, or silently replaced
os_rename(files, src, dst) ==
    (dst :> files[src]) @@ [q \in (DOMAIN files) \ {src} |-> files[q]]

\* the entries os.walk may yield next: those of the first directory, in
\* walk order, that still has entries to yield (the order within one
\* directory is the operating system's)
NextEntries ==
    IF pending = {} THEN {}
    ELSE LET d == CHOOSE i \in 1..Len(WalkDirs) :
                      /\ \E e \in pending : e.subdir = WalkDirs[i]
                      /\ \A j \in 1..(i - 1) :
                            ~ \E e \in pending : e.subdir = WalkDirs[j]
         IN {e \in pending : e.subdir = WalkDirs[d]}

Visit(e, branch) ==
    /\ pending' = pending \ {e}
    /\ visited' = Append(visited, [subdir |-> e.subdir, filename |-> e.filename,
                                   branch |-> branch])

\* process_unstructured_files starts on a raw tree of up to MaxFiles files
\* and empty processed directories
InitFiles ==
    /\ pc = "walk"
    /\ ChunkInit
    /\ NamesIdle
    /\ FirstRun
    /\ GlueIdle
    /\ visited = << >>
    /\ \E tree \in SUBSET Entries :
        /\ Cardinality(tree) >= 1
        /\ Cardinality(tree) <= MaxFiles
        /\ pending = tree
        /\ fs = [q \in {source_path(e) : e \in tree} |-> Lit(q)]

QuarantineImage(e) ==
    /\ pc = "walk"
    /\ e \in NextEntries
    /\ branch_table[e] = "quarantine"
    /\ fs' = os_rename(fs, source_path(e), quarantine_path(e.filename))
    /\ Visit(e, "quarantine")
    /\ UNCHANGED << pc, chunk_vars, name_vars, rerun_vars, glue_vars >>

CleanDocument(e) ==
    /\ pc = "walk"
    /\ e \in NextEntries
    /\ branch_table[e] = "pass-through"
    /\ fs' = os_rename(fs, source_path(e), documents_path(e.filename))
    /\ Visit(e, "pass-through")
    /\ UNCHANGED << pc, chunk_vars, name_vars, rerun_vars, glue_vars >>

\* Faulty variant: a file of unknown type is quarantined like an image
SkipUnknownFile_quarantined(e) ==
    /\ pc = "walk"
    /\ e \in NextEntries
    /\ branch_table[e] = "unknown"
    /\ fs' = os_rename(fs, source_path(e), quarantine_path(e.filename))
    /\ Visit(e, "unknown")
    /\ UNCHANGED << pc, chunk_vars, name_vars, rerun_vars, glue_vars >>

LeaveRawJsonl(e) ==
    /\ pc = "walk"
    /\ e \in NextEntries
    /\ branch_table[e] = "deferred"
    /\ Visit(e, "deferred")
    /\ UNCHANGED << pc, fs, chunk_vars, name_vars, rerun_vars, glue_vars >>

SkipUnknownFile(e) ==
    /\ pc = "walk"
    /\ e \in NextEntries
    /\ branch_table[e] = "unknown"
    /\ Visit(e, "unknown")
    /\ UNCHANGED << pc, fs, chunk_vars, name_vars, rerun_vars, glue_vars >>

NextFiles ==
    \/ \E e \in Entries : QuarantineImage(e)
    \/ \E e \in Entries : CleanDocument(e)
    \/ \E e \in Entries : LeaveRawJsonl(e)
    \/ \E e \in Entries : SkipUnknownFile(e)

SpecFiles == InitFiles /\ [][NextFiles]_vars

(***************************************************************************)
(* The names write_json_chunk gives to the chunks, as a function of the    *)
(* chunk index: two indices are drawn and named.                           *)
(***************************************************************************)
\* chunk indices around the points where the number of digits changes
IndexSamples == (0..3) \cup (8..11) \cup (98..101) \cup (998..1001)

InitNames ==
    /\ pc = "names"
    /\ fs = << >>
    /\ ChunkInit
    /\ WalkIdle
    /\ FirstRun
    /\ GlueIdle
    /\ index_pair \in IndexSamples \X IndexSamples
    /\ names = << >>

NameChunks ==
    /\ pc = "names"
    /\ names = << >>
    /\ names' = << output_filename(output_filename_base, index_pair[1]),
                   output_filename(output_filename_base, index_pair[2]) >>
    /\ UNCHANGED << pc, fs, chunk_vars, walk_vars, index_pair, rerun_vars, glue_vars >>

NextNames == NameChunks

SpecNames == InitNames /\ [][NextNames]_vars

(***************************************************************************)
(* The distributed job (rag_distributed_etl_job.py): the rows are loaded,  *)
(* cleaned by process_content_udf, spread over NumPartitions partitions    *)
(* and written, one file per partition that holds rows.  Which partition a *)
(* row goes to, and the order in which the partitions are written, is      *)
(* Spark's choice.  The text format writes each row on a line of its own.  *)
(***************************************************************************)
\* data_frame.repartition(100)
NumPartitions == 100

\* the partitions the model lets a row go to
PartitionSamples == {0, 1, NumPartitions - 1}

\* the job argument S3_PROCESSED_PATH
processed_s3_path == "s3://remap-my-rag-source-data/processed/"

GlueRows ==
    { [s3_uri |-> "s3://remap-my-rag-source-data/raw/visit.docx",
       raw_data_column |-> Lit("Patient John Smith, SSN 123-45-6789")],
      [s3_uri |-> "s3://remap-my-rag-source-data/raw/sheet.csv",
       raw_data_column |-> Lit("a,b")],
      [s3_uri |-> "s3://remap-my-rag-source-data/raw/big.txt",
       raw_data_column |-> Fill(30 * MB)],
      [s3_uri |-> "s3://remap-my-rag-source-data/raw/huge.txt",
       raw_data_column |-> Fill(45 * MB)] }

\* element_at(split(s3_uri, "\."), -1): what follows the last "."
RECURSIVE file_extension(_)
file_extension(s3_uri) ==
    IF str_contains(s3_uri, ".")
    THEN file_extension(SubSeq(s3_uri, 2, Len(s3_uri)))
    ELSE s3_uri

\* one row of process_content_udf
process_content(content, ext) ==
    LET parsed ==
            IF ext \in {".docx", ".pptx"}
            THEN Cat(Cat(Lit("DOCUMENT TEXT EXTRACTED: "), TextTake(content, 500)),
                     Lit("..."))
            ELSE IF ext \in {".xlsx", ".csv"}
            THEN Cat(Cat(Lit("TABULAR DATA NARRATIVE: Summary of sheet: "),
                         TextTake(content, 500)),
                     Lit("..."))
            ELSE content
    IN IF TextContainsLower(parsed, "patient") \/ TextContainsLower(parsed, "ssn")
       THEN Cat(Lit("[HIPAA REDACTION APPLIED] "),
                TextReplace(parsed, "John Smith", "[PHI_NAME_MASKED]"))
       ELSE parsed

\* the three withColumn calls, for one row
with_columns(row) ==
    [s3_uri |-> row.s3_uri,
     raw_data_column |-> row.raw_data_column,
     file_extension |-> file_extension(row.s3_uri),
     file_content |-> row.raw_data_column,
     cleaned_text |-> process_content(row.raw_data_column,
                                      file_extension(row.s3_uri))]

\* cleaned_text of the rows that `assignment` sends to partition p, in row order
RECURSIVE partition_rows(_, _, _, _)
partition_rows(rows, assignment, p, i) ==
    IF i > Len(rows) THEN << >>
    ELSE (IF assignment[i] = p THEN << rows[i].cleaned_text >> ELSE << >>)
         \o partition_rows(rows, assignment, p, i + 1)

\* the file of partition p
part_path(p) == processed_s3_path \o "part-" \o ZeroPad(int_str(p), 5)

\* the text format: every row followed by a line break
RECURSIVE text_file(_)
text_file(rows) ==
    IF rows = << >> THEN << >>
    ELSE Cat(Cat(rows[1], Lit("\n")), text_file(Tail(rows)))

InitGlue ==
    /\ pc = "load"
    /\ fs = << >>
    /\ ChunkInit
    /\ WalkIdle
    /\ NamesIdle
    /\ FirstRun
    /\ GlueIdle

\* create_dynamic_frame.from_options(...).toDF(): one more row of the input
LoadRow(row) ==
    /\ pc = "load"
    /\ Len(frame) < MaxRows
    /\ frame' = Append(frame, row)
    /\ UNCHANGED << pc, fs, partitions, chunk_vars, walk_vars, name_vars, rerun_vars >>

\* the columns file_extension, file_content and cleaned_text are added
CleanRows ==
    /\ pc = "load"
    /\ frame # << >>
    /\ frame' = [i \in 1..Len(frame) |-> with_columns(frame[i])]
    /\ pc' = "cleaned"
    /\ UNCHANGED << fs, partitions, chunk_vars, walk_vars, name_vars, rerun_vars >>

\* data_frame.repartition(100).select("cleaned_text")
Repartition ==
    /\ pc = "cleaned"
    /\ \E assignment \in [1..Len(frame) -> PartitionSamples] :
          partitions' = [p \in {assignment[i] : i \in 1..Len(frame)} |->
                            partition_rows(frame, assignment, p, 1)]
    /\ pc' = "write"
    /\ UNCHANGED << fs, frame, chunk_vars, walk_vars, name_vars, rerun_vars >>

\* write_dynamic_frame: the task of one partition writes its file
WritePartition(p) ==
    /\ pc = "write"
    /\ p \in DOMAIN partitions
    /\ part_path(p) \notin DOMAIN fs
    /\ fs' = (part_path(p) :> text_file(partitions[p])) @@ fs
    /\ UNCHANGED << pc, frame, partitions, chunk_vars, walk_vars, name_vars,
                    rerun_vars >>

\* job.commit(), once every partition is written
Commit ==
    /\ pc = "write"
    /\ \A p \in DOMAIN partitions : part_path(p) \in DOMAIN fs
    /\ pc' = "committed"
    /\ UNCHANGED << fs, frame, partitions, chunk_vars, walk_vars, name_vars,
                    rerun_vars >>

NextGlue ==
    \/ \E row \in GlueRows : LoadRow(row)
    \/ CleanRows
    \/ Repartition
    \/ \E p \in PartitionSamples : WritePartition(p)
    \/ Commit

SpecGlue == InitGlue /\ [][NextGlue]_vars

(***************************************************************************)
(* Properties of split_and_process_jsonl.                                  *)
(***************************************************************************)
\* the total byte length of the narratives of a list
RECURSIVE SumByteLen(_)
SumByteLen(list) ==
    IF list = << >> THEN 0 ELSE ByteLen(list[1]) + SumByteLen(Tail(list))

\* the narratives of the written chunks, in the order of writing
RECURSIVE WrittenNarratives(_)
WrittenNarratives(log) ==
    IF log = << >> THEN << >>
    ELSE log[1].data_list \o WrittenNarratives(Tail(log))

IsRecordLine(line) ==
    json_loads(line).t # "JSONDecodeError" /\ has_items(json_loads(line))

\* the narratives of the lines that hold a record, in input order
RECURSIVE InputNarratives(_)
InputNarratives(ls) ==
    IF ls = << >> THEN << >>
    ELSE (IF IsRecordLine(ls[1]) THEN << rag_text_of[ls[1]] >> ELSE << >>)
         \o InputNarratives(Tail(ls))

Oversized(narrative) == ByteLen(narrative) > MAX_JSON_CHUNK_SIZE_BYTES

\* C1: every written chunk holds at most MAX_JSON_CHUNK_SIZE_BYTES bytes of
\* narratives or is a single narrative that is itself over the ceiling; a
\* narrative over the ceiling is always alone in its chunk.
C1_SizeBound ==
    \A k \in 1..Len(written) :
        LET d == written[k].data_list
        IN /\ \/ SumByteLen(d) <= MAX_JSON_CHUNK_SIZE_BYTES
              \/ Len(d) = 1 /\ Oversized(d[1])
           /\ \A i \in 1..Len(d) : Oversized(d[i]) => Len(d) = 1

\* an oversized narrative written alone after an earlier chunk of several
\* narratives that fills the ceiling exactly
C1_Witness ==
    \E j, k \in 1..Len(written) :
        /\ j < k
        /\ Len(written[j].data_list) >= 2
        /\ SumByteLen(written[j].data_list) = MAX_JSON_CHUNK_SIZE_BYTES
        /\ Len(written[k].data_list) = 1
        /\ Oversized(written[k].data_list[1])

\* C2: when the run finishes, the narratives of the written chunks, taken in
\* chunk order, are exactly the narratives of the record lines in input
\* order, and the chunks carry the indices 0, 1, 2, ... in that order.
C2_Conservation ==
    pc = "done" =>
        /\ WrittenNarratives(written) = InputNarratives(lines)
        /\ \A k \in 1..Len(written) : written[k].index = k - 1

\* a finished run of several chunks with a skipped line between records
C2_Witness ==
    /\ pc = "done"
    /\ Len(written) >= 2
    /\ Len(InputNarratives(lines)) >= 3
    /\ \E i \in 2..(Len(lines) - 1) :
        /\ ~IsRecordLine(lines[i])
        /\ IsRecordLine(lines[i - 1])
        /\ IsRecordLine(lines[i + 1])

\* the content of the file a call of write_json_chunk wrote
FileOf(w) == fs[w.path]

\* C3 (as claimed): every written file of two or more narratives is at most
\* MAX_JSON_CHUNK_SIZE_BYTES bytes long, separators included.
C3_FileWithinCeiling ==
    \A k \in 1..Len(written) :
        Len(written[k].data_list) >= 2 =>
            ByteLen(FileOf(written[k])) <= MAX_JSON_CHUNK_SIZE_BYTES

\* C3 (amended): a written file of n >= 2 narratives holds the narratives
\* and n - 1 separators of 7 bytes; the narratives alone are at most
\* MAX_JSON_CHUNK_SIZE_BYTES bytes, so the file is at most
\* MAX_JSON_CHUNK_SIZE_BYTES + 7 * (n - 1) bytes.
C3_FileWithinCeilingPlusSeparators ==
    \A k \in 1..Len(written) :
        LET d == written[k].data_list
        IN Len(d) >= 2 =>
            /\ ByteLen(FileOf(written[k])) = SumByteLen(d) + 7 * (Len(d) - 1)
            /\ SumByteLen(d) <= MAX_JSON_CHUNK_SIZE_BYTES
            /\ ByteLen(FileOf(written[k]))
                   <= MAX_JSON_CHUNK_SIZE_BYTES + 7 * (Len(d) - 1)

\* a written file of two narratives that is longer than the ceiling
C3_Witness ==
    \E k \in 1..Len(written) :
        /\ Len(written[k].data_list) = 2
        /\ ByteLen(FileOf(written[k])) > MAX_JSON_CHUNK_SIZE_BYTES

\* the step reads a line that json.loads rejects
ReadsMalformedLine ==
    /\ Len(lines') = Len(lines) + 1
    /\ json_loads(lines'[Len(lines')]).t = "JSONDecodeError"

\* C4: reading a line that fails to parse changes neither the narrative
\* list, the byte counter, the chunk index nor the files written, and the
\* loop goes on to the next line.
C4_MalformedLineSkipped ==
    [][ReadsMalformedLine =>
            /\ UNCHANGED << output_data_list, current_chunk_size,
                            chunk_file_index, fs, written >>
            /\ pc' = "loop"]_vars

\* a malformed line read between two records, the second of which was
\* appended to the chunk the first is in
C4_Witness ==
    /\ pc = "loop"
    /\ Len(lines) = 3
    /\ IsRecordLine(lines[1])
    /\ json_loads(lines[2]).t = "JSONDecodeError"
    /\ IsRecordLine(lines[3])
    /\ skipped = << 1 >>
    /\ output_data_list = << rag_text_of[lines[1]], rag_text_of[lines[3]] >>

\* C5 (as claimed): whatever a line holds, the run is not aborted: the loop
\* goes on, and once the run is over every narrative has been written.
C5_NoLineAbortsTheRun ==
    /\ pc # "raised"
    /\ pc # "loop" => WrittenNarratives(written) = InputNarratives(lines)

TriggerTokens == {"patient", "ssn"}

RedactionMarker == "[HIPAA REDACTION APPLIED]"

HasTrigger(narrative) ==
    \E token \in TriggerTokens : TextContainsLower(narrative, token)

\* C7 (as claimed): every narrative written to a chunk file that contains a
\* trigger token carries the redaction marker.
C7_WrittenNarrativesRedacted ==
    \A k \in 1..Len(written) :
        \A i \in 1..Len(written[k].data_list) :
            HasTrigger(written[k].data_list[i]) =>
                TextStartsWith(written[k].data_list[i], RedactionMarker)

(***************************************************************************)
(* Properties of the chunk file names.                                     *)
(***************************************************************************)
\* C6 (as claimed): of two chunks, the one with the smaller index has the
\* name that sorts first.
C6_NamesSortInEmissionOrder ==
    (names # << >> /\ index_pair[1] < index_pair[2]) =>
        str_less(names[1], names[2])

(***************************************************************************)
(* Properties of process_unstructured_files.                               *)
(***************************************************************************)
\* the directory in which the main program looks for large_raw_data.jsonl
StructuredDataRoot == path_join(RAW_ROOT, "json")

UnderStructuredDataRoot(subdir) ==
    \/ subdir = StructuredDataRoot
    \/ str_startswith(subdir, StructuredDataRoot \o "/")

\* the disposition the extension tables give
ClaimedDisposition(subdir, filename) ==
    LET lowered == str_lower(filename)
    IN IF str_endswith_any(lowered, {".png", ".jpg", ".jpeg", ".gif"})
       THEN "quarantine"
       ELSE IF str_endswith_any(lowered, {".docx", ".pdf", ".xlsx", ".pptx", ".eml"})
       THEN "pass-through"
       ELSE IF str_endswith(lowered, ".jsonl") /\ UnderStructuredDataRoot(subdir)
       THEN "deferred"
       ELSE "unknown"

\* C8 (as claimed): every file takes the one disposition its lower-cased
\* extension gives, with .jsonl under the structured-data root deferred.
C8_DispositionByExtension ==
    \A k \in 1..Len(visited) :
        visited[k].branch = ClaimedDisposition(visited[k].subdir, visited[k].filename)

\* C9 (as claimed): a .jsonl file directly in the structured-data root is
\* deferred.
C9_JsonlInStructuredRootDeferred ==
    \A k \in 1..Len(visited) :
        (/\ visited[k].subdir = StructuredDataRoot
         /\ str_endswith(str_lower(visited[k].filename), ".jsonl"))
            => visited[k].branch = "deferred"

\* files is `before` with the file at src moved to dst and nothing else
\* changed
MovedOnly(before, after, src, dst) ==
    /\ src \in DOMAIN before
    /\ DOMAIN after = ((DOMAIN before) \ {src}) \cup {dst}
    /\ after[dst] = before[src]
    /\ \A q \in (DOMAIN before) \ {src, dst} : after[q] = before[q]

\* C10: a step that classifies a file as unknown or deferred leaves every
\* file where it is; a step that quarantines or passes a file through moves
\* that file, and only it, to the directory of its category.
C10_OnlyRelocationsMoveFiles ==
    [][Len(visited') = Len(visited) + 1 =>
        LET v == visited'[Len(visited')]
            src == path_join(v.subdir, v.filename)
        IN /\ v.branch \in {"unknown", "deferred"} =>
                /\ fs' = fs
                /\ src \in DOMAIN fs'
                /\ fs'[src] = Lit(src)
           /\ v.branch = "quarantine" =>
                MovedOnly(fs, fs', src,
                          PROCESSED_ROOT \o "unsupported_files/" \o v.filename)
           /\ v.branch = "pass-through" =>
                MovedOnly(fs, fs', src,
                          PROCESSED_ROOT \o "documents/" \o v.filename)]_vars

\* a finished walk that skipped one file, deferred one and quarantined one:
\* the first two are where they were, the third is in unsupported_files
C10_Witness ==
    /\ pending = {}
    /\ \E i, j, k \in 1..Len(visited) :
        /\ visited[i].branch = "unknown"
        /\ visited[j].branch = "deferred"
        /\ visited[k].branch = "quarantine"
        /\ path_join(visited[i].subdir, visited[i].filename) \in DOMAIN fs
        /\ path_join(visited[j].subdir, visited[j].filename) \in DOMAIN fs
        /\ path_join(visited[k].subdir, visited[k].filename) \notin DOMAIN fs
        /\ quarantine_path(visited[k].filename) \in DOMAIN fs

(***************************************************************************)
(* Properties of the pipeline run twice.                                   *)
(***************************************************************************)
SecondRunOver ==
    /\ run = 2
    /\ pc \in {"done", "raised"}

C12_PartitionFilesWithinCeiling ==
    \A p \in DOMAIN partitions :
        part_path(p) \in DOMAIN fs =>
            \/ SumByteLen(partitions[p]) <= MAX_JSON_CHUNK_SIZE_BYTES
            \/ Len(partitions[p]) = 1 /\ Oversized(partitions[p][1])

(***************************************************************************)
(* Properties of the rollover and of the final write.                      *)
(***************************************************************************)
\* a step of the loop that reads a line holding a record
RecordStep ==
    /\ pc = "loop"
    /\ pc' = "loop"
    /\ Len(lines') = Len(lines) + 1
    /\ IsRecordLine(lines'[Len(lines')])

\* a step that writes one more chunk
SealStep == Len(written') = Len(written) + 1

ScenarioA == << BlobLine(20 * MB), BlobLine(20 * MB), BlobLine(5 * MB) >>

\* C14: on a record of narrative length len the current chunk is written
\* if and only if current_chunk_size > 0 and current_chunk_size + len is
\* over the ceiling; the narrative is appended either way, to the chunk as
\* it was or to the new one; narratives of 20 MB, 20 MB and 5 MB end as the
\* chunks [r1, r2] and [r3].
C14_RolloverRule ==
    /\ [][RecordStep =>
            LET rag_text == rag_text_of[lines'[Len(lines')]]
                length == ByteLen(rag_text)
                over == /\ current_chunk_size > 0
                        /\ current_chunk_size + length > MAX_JSON_CHUNK_SIZE_BYTES
            IN /\ SealStep <=> over
               /\ over =>
                    /\ written'[Len(written')].data_list = output_data_list
                    /\ output_data_list' = << rag_text >>
                    /\ current_chunk_size' = length
               /\ ~over =>
                    /\ written' = written
                    /\ output_data_list' = Append(output_data_list, rag_text)
                    /\ current_chunk_size' = current_chunk_size + length]_vars
    /\ [](pc = "done" /\ lines = ScenarioA =>
            /\ Len(written) = 2
            /\ written[1].data_list = << rag_text_of[ScenarioA[1]],
                                         rag_text_of[ScenarioA[2]] >>
            /\ written[2].data_list = << rag_text_of[ScenarioA[3]] >>)

\* the run of the 20 MB, 20 MB and 5 MB records, finished: the first chunk
\* is exactly at the ceiling
C14_Witness ==
    /\ pc = "done"
    /\ lines = ScenarioA
    /\ Len(written) = 2
    /\ SumByteLen(written[1].data_list) = MAX_JSON_CHUNK_SIZE_BYTES
    /\ ByteLen(written[2].data_list[1]) = 5 * MB

\* C15: no written chunk is empty; a finished run without a record line
\* has written nothing; the end of the input writes one chunk when
\* output_data_list holds narratives and none when it is empty; after it
\* the narratives of output_data_list are those of the last written file.
C15_FinalWrite ==
    /\ [](\A k \in 1..Len(written) : written[k].data_list # << >>)
    /\ [](pc = "done" /\ InputNarratives(lines) = << >> =>
            written = << >> /\ fs = << >>)
    /\ [](pc = "done" /\ output_data_list # << >> =>
            /\ written # << >>
            /\ written[Len(written)].data_list = output_data_list
            /\ FileOf(written[Len(written)]) = Join(ParagraphBreak, output_data_list))
    /\ [][pc = "loop" /\ pc' = "done" =>
            IF output_data_list = << >>
            THEN written' = written /\ fs' = fs
            ELSE /\ SealStep
                 /\ written'[Len(written')].data_list = output_data_list]_vars

\* a finished run whose last chunk was written by the end of the input,
\* after a rollover wrote an earlier one
C15_Witness ==
    /\ pc = "done"
    /\ Len(written) >= 2
    /\ Len(output_data_list) >= 2
    /\ written[Len(written)].data_list = output_data_list

\* C16: chunk_file_index is the number of chunks the rollover has written:
\* it starts at 0 and a step adds 1 to it exactly when it is a rollover
\* write; the chunks written carry the indices 0, 1, 2, ... in order, their
\* paths differ, and every file still holds what its write put there.
C16_ChunkIndex ==
    /\ [](\A k \in 1..Len(written) : written[k].index = k - 1)
    /\ [](\A j, k \in 1..Len(written) : j # k => written[j].path # written[k].path)
    /\ [](\A k \in 1..Len(written) :
            /\ written[k].path \in DOMAIN fs
            /\ FileOf(written[k]) = Join(ParagraphBreak, written[k].data_list))
    /\ [](pc = "loop" => chunk_file_index = Len(written))
    /\ [][chunk_file_index' =
            chunk_file_index + (IF RecordStep /\ SealStep THEN 1 ELSE 0)]_vars

\* a finished run of three chunks: two rollover writes and the final one
C16_Witness ==
    /\ pc = "done"
    /\ Len(written) = 3
    /\ chunk_file_index = 2
    /\ Cardinality(DOMAIN fs) = 3

\* C17 (as claimed): the number of files the final message reports is the
\* number of chunks the run has written.
C17_ReportedCountIsWrittenCount ==
    pc = "done" => reported = Len(written)

\* C18: of two chunks written one after the other, the first could not
\* have taken the first narrative of the second: together they are over
\* the ceiling.
C18_Greedy ==
    \A k \in 1..(Len(written) - 1) :
        SumByteLen(written[k].data_list) + ByteLen(written[k + 1].data_list[1])
            > MAX_JSON_CHUNK_SIZE_BYTES

\* a chunk of several narratives that ends below the ceiling, followed by
\* a chunk whose first narrative would have fitted an empty chunk
C18_Witness ==
    \E k \in 1..(Len(written) - 1) :
        /\ Len(written[k].data_list) >= 2
        /\ SumByteLen(written[k].data_list) < MAX_JSON_CHUNK_SIZE_BYTES
        /\ ~Oversized(written[k + 1].data_list[1])

(***************************************************************************)
(* Properties of the relocation of files.                                  *)
(***************************************************************************)
\* the path process_unstructured_files moves a visited file to
destination_of(v) ==
    IF v.branch = "quarantine" THEN quarantine_path(v.filename)
    ELSE documents_path(v.filename)

\* C19 (as claimed): every file the walk has quarantined or passed through
\* is at its destination, and no two of them have the same destination.
C19_NoFileLost ==
    /\ \A i \in 1..Len(visited) :
        visited[i].branch \in {"quarantine", "pass-through"} =>
            /\ destination_of(visited[i]) \in DOMAIN fs
            /\ fs[destination_of(visited[i])] =
                   Lit(path_join(visited[i].subdir, visited[i].filename))
    /\ \A i, j \in 1..Len(visited) :
        /\ i # j
        /\ visited[i].branch \in {"quarantine", "pass-through"}
        /\ visited[j].branch \in {"quarantine", "pass-through"}
        => destination_of(visited[i]) # destination_of(visited[j])

=============================================================================
